---- MODULE Spec2Model ----
(***************************************************************************)
(* Implied-volatility surface of src/src/vol_surface.py:                   *)
(*   fetch_option_chain -> calculate_implied_volatility (calc_iv per row)  *)
(*   -> create_volatility_surface (call, put)  = get_volatility_surface.   *)
(*                                                                         *)
(* Numbers are fixed point.                                                *)
(*   volatility   : multiples of 1/9900, so that np.linspace(0.01,2.0,100) *)
(*                  is exactly 99 + 199*k (k = 0..99) and the seed 0.5 is  *)
(*                  4950;                                                  *)
(*   prices       : mills (1/1000 of a currency unit), 0.01 is 10;         *)
(*   spot, strike : whole currency units;                                  *)
(*   moneyness    : percent (strike * 100 / spot);                         *)
(*   timeToExpiry : days / 365, kept as the number of days;                *)
(*   rates        : multiples of 1/10000.                                  *)
(*                                                                         *)
(* The state variables keep the source's names; the parameters of the      *)
(* operators abbreviate them: S current_price, r risk_free_rate,           *)
(* q dividend_yield, df options_df, um use_moneyness, fr filter_range.     *)
(***************************************************************************)
EXTENDS Integers, Sequences, FiniteSets, TLC

\* ------------------------------------------------------------------------
\* Units
\* ------------------------------------------------------------------------
FP == 10000
SigmaDen == 9900
DaysPerYear == 365

\* calc_iv's "return None", stored by pandas as a missing value of the column
None == -1
\* a float that is not a number: every comparison with it is false
NaN == -1

Abs(x) == IF x < 0 THEN -x ELSE x

\* ------------------------------------------------------------------------
\* src.black_scholes.BlackScholes (Black-Scholes-Merton, spec section 4.1),
\* evaluated in fixed point
\* ------------------------------------------------------------------------
RECURSIVE NewtonSqrt(_, _)
NewtonSqrt(n, x) ==
    LET y == (x + n \div x) \div 2
    IN  IF y >= x THEN x ELSE NewtonSqrt(n, y)

\* floor of the square root of n >= 0
Isqrt(n) == IF n < 2 THEN n ELSE NewtonSqrt(n, n)

\* sqrt(T) * FP for T = days / 365 years, days >= 0
SqrtT(days) == 10 * Isqrt((days * 1000000) \div DaysPerYear)

\* number of terms of the two power series below
SeriesTerms == 16

RECURSIVE ExpSeries(_, _, _, _)
ExpSeries(x, k, term, acc) ==
    IF k > SeriesTerms \/ term = 0 THEN acc
    ELSE LET t == (term * x) \div (k * FP)
         IN  ExpSeries(x, k + 1, t, IF k % 2 = 1 THEN acc - t ELSE acc + t)

\* e^(-x) * FP for x >= 0 given as x * FP
ExpNeg(x) == ExpSeries(x, 1, FP, FP)

RECURSIVE AtanhSeries(_, _, _, _)
AtanhSeries(z2, k, pow, acc) ==
    IF k > 2 * SeriesTerms \/ pow = 0 THEN acc
    ELSE AtanhSeries(z2, k + 2, (pow * z2) \div FP, acc + pow \div k)

\* ln(S / K) * FP = 2 atanh((S - K) / (S + K)) * FP, S > 0, K > 0
Ln(S, K) ==
    LET z  == (Abs(S - K) * FP) \div (S + K)
        z2 == (z * z) \div FP
        v  == 2 * AtanhSeries(z2, 1, z, 0)
    IN  IF S >= K THEN v ELSE -v

\* the standard normal CDF * FP at 0, 0.25, ..., 4.0
PhiTable ==
    << 5000, 5987, 6915, 7734, 8413, 8944, 9332, 9599, 9772,
       9878, 9938, 9970, 9987, 9994, 9998, 9999, 10000 >>

PhiStep == 2500

\* Phi(x) * FP for x * FP, linear between the tabulated points
Phi(x) ==
    LET a == Abs(x)
        i == a \div PhiStep
        p == IF i >= Len(PhiTable) - 1 THEN FP
             ELSE PhiTable[i + 1]
                  + ((PhiTable[i + 2] - PhiTable[i + 1]) * (a % PhiStep)) \div PhiStep
    IN  IF x >= 0 THEN p ELSE FP - p

\* num / den (* FP) for den >= 0, cut off where Phi is flat; a zero den divides
\* to an infinity of the sign of num
Ratio(num, den) ==
    LET sat == (Len(PhiTable) - 1) * PhiStep
    IN  IF Abs(num) >= 4 * den
        THEN (IF num >= 0 THEN sat ELSE -sat)
        ELSE IF num >= 0 THEN (num * FP) \div den
             ELSE -(((-num) * FP) \div den)

\* d1 and d2 (each * FP) of a contract: d1 = num / den, d2 = d1 - den with
\* den = sigma * sqrt(T); nan when T < 0 (sqrt of a negative) or 0 / 0
D12(S, K, days, r, sigma, q) ==
    LET sig2h == (sigma * sigma) \div (2 * ((SigmaDen * SigmaDen) \div FP))
        Quotients(num, den) ==
            IF days < 0 \/ (den = 0 /\ num = 0)
            THEN [nan |-> TRUE, d1 |-> 0, d2 |-> 0]
            ELSE [nan |-> FALSE,
                  d1  |-> Ratio(num, den),
                  d2  |-> Ratio(num - (den * den) \div FP, den)]
    IN  Quotients(Ln(S, K) + ((r - q + sig2h) * days) \div DaysPerYear,
                  (sigma * SqrtT(days)) \div SigmaDen)

\* A * disc * phi in mills (A in currency units, disc and phi * FP)
Leg(A, disc, phi) == (((A * disc) \div 100) * phi) \div 1000

\* BlackScholes(S, K, T, r, sigma, q).calculate_option_price(option_type):
\* a record [nan, price], the price in mills
calculate_option_price(option_type, S, K, days, r, sigma, q) ==
    LET years == IF days < 0 THEN 0 ELSE days
        \* +1 for a call, -1 for a put: the put is the call formula with the
        \* signs of d1, d2 and of the difference reversed
        w == IF option_type = "call" THEN 1 ELSE -1
        Price(d, dq, dr) ==
            IF d.nan THEN [nan |-> TRUE, price |-> 0]
            ELSE [nan |-> FALSE,
                  price |-> w * (Leg(S, dq, Phi(w * d.d1))
                                 - Leg(K, dr, Phi(w * d.d2)))]
    IN  Price(D12(S, K, days, r, sigma, q),
              ExpNeg((q * years) \div DaysPerYear),
              ExpNeg((r * years) \div DaysPerYear))

\* ------------------------------------------------------------------------
\* calculate_implied_volatility.calc_iv: the grid search for one row
\* ------------------------------------------------------------------------
\* float comparisons: false as soon as one side is not a number
Less(a, b) == a # NaN /\ b # NaN /\ a < b
Greater(a, b) == a # NaN /\ b # NaN /\ a > b

\* np.linspace(0.01, 2.0, 100)[k], k = 0 .. GridPoints - 1
GridPoints == 100
GridFirst == 99
GridStep == 199
\* a grid that starts at 0 instead of 0.01
linspace_FromZero(k) == GridStep * k
linspace(k) == GridFirst + GridStep * k

\* best_iv = 0.5
SeedIV == 4950

\* option_price < 0.01
MinPrice == 10
\* a threshold of 0.001 instead of 0.01
TooSmall_Tenth(option_price) == option_price < 1
TooSmall(option_price) == option_price < MinPrice

\* abs(model_price - option_price)
objective_function(row, S, r, q, sigma) ==
    LET Error(model) ==
            IF model.nan THEN NaN ELSE Abs(model.price - row.lastPrice)
    IN  Error(calculate_option_price(row.optionType, S, row.strike,
                                     row.timeToExpiry, r, sigma, q))

\* error <= best_error: the last candidate of a tie would win
Improves_NonStrict(error, best_error) ==
    Less(error, best_error) \/ (error # NaN /\ error = best_error)

\* error < best_error
Improves(error, best_error) == Less(error, best_error)

\* the body of the loop for candidate k, entered with the incumbent
\* best = [best_iv, best_error, evals] (evals counts the pricer evaluations)
loop_body(row, S, r, q, k, best) ==
    LET Body(sigma, error) ==
            IF Improves(error, best.best_error)
            THEN [best_iv |-> sigma, best_error |-> error,
                  evals |-> best.evals + 1]
            ELSE [best EXCEPT !.evals = @ + 1]
    IN  Body(linspace(k), objective_function(row, S, r, q, linspace(k)))

\* the loop over the candidates lo .. hi in increasing order: the first half,
\* then the second half entered with what the first half left (the test on
\* evals is always true; it makes TLC finish the first half before it starts
\* the second, which keeps its evaluation stack shallow)
RECURSIVE grid_search(_, _, _, _, _, _, _)
grid_search(row, S, r, q, lo, hi, best) ==
    IF lo > hi THEN best
    ELSE IF lo = hi
    THEN loop_body(row, S, r, q, lo, best)
    ELSE LET mid == (lo + hi) \div 2
             Rest(left) ==
                 IF left.evals > 0
                 THEN grid_search(row, S, r, q, mid + 1, hi, left)
                 ELSE left
         IN  Rest(grid_search(row, S, r, q, lo, mid, best))

\* best_error >= 0.1 * option_price: the exact bound would be rejected
Rejected_AtBound(best_error, option_price) ==
    Greater(10 * best_error, option_price)
    \/ (best_error # NaN /\ 10 * best_error = option_price)

\* best_error > 0.1 * option_price
Rejected(best_error, option_price) == Greater(10 * best_error, option_price)

\* calc_iv(row, current_price, risk_free_rate, dividend_yield): result is what
\* it returns; current_price is the spot it was given; best_iv, best_error and
\* the number of pricer evaluations are its locals when it returns
calc_iv(row, S, r, q) ==
    IF TooSmall(row.lastPrice)
    THEN [result |-> None, current_price |-> S, best_iv |-> None,
          best_error |-> NaN, evals |-> 0]
    ELSE LET seed == [best_iv |-> SeedIV,
                      best_error |-> objective_function(row, S, r, q, SeedIV),
                      evals |-> 1]
             Return(best) ==
                 [result |-> IF Rejected(best.best_error, row.lastPrice)
                             THEN None ELSE best.best_iv,
                  current_price |-> S,
                  best_iv |-> best.best_iv, best_error |-> best.best_error,
                  evals |-> best.evals]
         IN  Return(grid_search(row, S, r, q, 0, GridPoints - 1, seed))

\* ------------------------------------------------------------------------
\* The market and the arguments of get_volatility_surface
\* ------------------------------------------------------------------------
\* total number of rows the provider returns over all listed expiries
MaxQuotes == 2

Spots == {200}
Strikes == {100, 200}
LastPrices == {5, 10, 6400, 100000}
\* the listed expiry dates, in days after today
ExpiryOffsets == {1, 366}
\* (risk_free_rate, dividend_yield)
Rates == {<<0, 0>>, <<500, 100>>}
\* filter_range: <<>> is None, else (low, high)
FilterRanges == {<<>>, <<50, 100>>, <<100, 150>>}

OptionTypes == {"call", "put"}

RECURSIVE SortedSeq(_)
\* the elements of a finite set of integers in increasing order
SortedSeq(S) ==
    IF S = {} THEN <<>>
    ELSE LET m == CHOOSE a \in S : \A b \in S : a <= b
         IN  <<m>> \o SortedSeq(S \ {m})

\* a row of opt.calls / opt.puts as the provider returns it
RawRows == [strike : Strikes, lastPrice : LastPrices]

\* stock.option_chain(date) returning n rows in all
ChainsOf(date, n) ==
    UNION { { [date |-> date, ok |-> TRUE, calls |-> c, puts |-> p] :
                c \in [1 .. nc -> RawRows], p \in [1 .. (n - nc) -> RawRows] } :
            nc \in 0 .. n }

\* stock.option_chain(date) raising
ChainError(date) == [date |-> date, ok |-> FALSE, calls |-> <<>>, puts |-> <<>>]

RECURSIVE MarketsFrom(_, _)
\* what stock.options lists among dates (ascending) and what option_chain
\* answers for each listed date, with at most budget rows in all
MarketsFrom(dates, budget) ==
    IF dates = <<>> THEN {<<>>}
    ELSE LET d    == Head(dates)
             rest == Tail(dates)
         IN  MarketsFrom(rest, budget)
             \cup { <<ChainError(d)>> \o m : m \in MarketsFrom(rest, budget) }
             \cup UNION { { <<ch>> \o m : ch \in ChainsOf(d, n),
                                         m \in MarketsFrom(rest, budget - n) } :
                          n \in 0 .. budget }

Markets == MarketsFrom(SortedSeq(ExpiryOffsets), MaxQuotes)

\* ------------------------------------------------------------------------
\* fetch_option_chain
\* ------------------------------------------------------------------------
NoneFrame == [isNone |-> TRUE, rows |-> <<>>]
DataFrame(rows) == [isNone |-> FALSE, rows |-> rows]

\* (expiry_date - datetime.datetime.now()).days: the expiry is midnight of its
\* date and now is some time into today, so the difference is rounded down
days_to_expiry(date) == date - 1

\* calls["moneyness"] = calls["strike"] / current_price, in percent
Moneyness(strike, S) == (strike * 100) \div S

\* opt.calls / opt.puts with the five added columns
Quotes(raw, option_type, date, S) ==
    [i \in 1 .. Len(raw) |->
        [optionType   |-> option_type,
         strike       |-> raw[i].strike,
         lastPrice    |-> raw[i].lastPrice,
         expiryDate   |-> date,
         timeToExpiry |-> days_to_expiry(date),
         daysToExpiry |-> days_to_expiry(date),
         moneyness    |-> Moneyness(raw[i].strike, S)]]

RECURSIVE Concat(_)
\* pd.concat(all_options)
Concat(frames) ==
    IF frames = <<>> THEN <<>> ELSE Head(frames) \o Concat(Tail(frames))

RECURSIVE AllOptions(_, _)
\* the loop over expiration_dates: two frames per date whose chain arrives,
\* nothing for a date whose chain raises
AllOptions(market, S) ==
    IF market = <<>> THEN <<>>
    ELSE LET e == Head(market)
         IN  (IF e.ok
              THEN << Quotes(e.calls, "call", e.date, S),
                      Quotes(e.puts, "put", e.date, S) >>
              ELSE <<>>)
             \o AllOptions(Tail(market), S)

\* fetch_option_chain(ticker): available is false when the spot or the list of
\* expiries cannot be fetched
fetch_option_chain(available, spot, market) ==
    IF ~available THEN [options_df |-> NoneFrame, current_price |-> 0]
    ELSE LET Return(all_options) ==
                 IF all_options # <<>>
                 THEN [options_df |-> DataFrame(Concat(all_options)),
                       current_price |-> spot]
                 ELSE [options_df |-> NoneFrame, current_price |-> spot]
         IN  Return(AllOptions(market, spot))

\* ------------------------------------------------------------------------
\* calculate_implied_volatility
\* ------------------------------------------------------------------------
Days == {days_to_expiry(d) : d \in ExpiryOffsets}

\* the values moneyness.iloc[0] * strike.iloc[0] can take
CurrentPrices == {(Moneyness(K, s) * K) \div 100 : K \in Strikes, s \in Spots}

\* calc_iv over every row that can occur, computed once: the pairs of the
\* arguments and what calc_iv does with them
calc_iv_table ==
    { << k, calc_iv([optionType |-> k[1], strike |-> k[2], timeToExpiry |-> k[3],
                     lastPrice |-> k[4]],
                    k[5], k[6][1], k[6][2]) >> :
      k \in OptionTypes \X Strikes \X Days \X LastPrices \X CurrentPrices \X Rates }

RECURSIVE Lookup(_)
\* the function that maps the first component of each pair to the second
Lookup(pairs) ==
    IF Cardinality(pairs) = 0 THEN <<>>
    ELSE LET e == CHOOSE x \in pairs : TRUE
         IN  (e[1] :> e[2]) @@ Lookup(pairs \ {e})

calc_iv_of == Lookup(calc_iv_table)

\* the lambda of options_df.apply(..., axis=1)
apply_calc_iv(row, S, r, q) ==
    calc_iv_of[<< row.optionType, row.strike, row.timeToExpiry, row.lastPrice,
                  S, <<r, q>> >>]

\* calculate_implied_volatility(options_df, risk_free_rate, dividend_yield):
\* raised is the IndexError of .iloc[0] on a frame without rows; S is its
\* local current_price; solved holds, per row, what calc_iv did
calculate_implied_volatility(df, r, q) ==
    IF Len(df.rows) = 0
    THEN [raised |-> TRUE, options_df |-> df, solved |-> <<>>]
    ELSE LET rows == df.rows
             S == (rows[1].moneyness * rows[1].strike) \div 100
             Return(results) ==
                 [raised |-> FALSE,
                  options_df |-> DataFrame(
                      [i \in 1 .. Len(rows) |->
                          [optionType        |-> rows[i].optionType,
                           strike            |-> rows[i].strike,
                           lastPrice         |-> rows[i].lastPrice,
                           expiryDate        |-> rows[i].expiryDate,
                           timeToExpiry      |-> rows[i].timeToExpiry,
                           daysToExpiry      |-> rows[i].daysToExpiry,
                           moneyness         |-> rows[i].moneyness,
                           impliedVolatility |-> results[i].result]]),
                  solved |-> results]
         IN  Return([i \in 1 .. Len(rows) |-> apply_calc_iv(rows[i], S, r, q)])

\* ------------------------------------------------------------------------
\* create_volatility_surface
\* ------------------------------------------------------------------------
RECURSIVE Gcd(_, _)
Gcd(a, b) == IF b = 0 THEN a ELSE Gcd(b, a % b)

\* the fraction num / den in lowest terms; 0 / 0 is the missing value of a cell
Fraction(num, den) ==
    LET g == Gcd(num, den)
    IN  IF g = 0 THEN [num |-> 0, den |-> 0]
        ELSE [num |-> num \div g, den |-> den \div g]

Missing == Fraction(0, 0)

RECURSIVE SumIV(_)
SumIV(rows) ==
    IF rows = <<>> THEN 0 ELSE Head(rows).impliedVolatility + SumIV(Tail(rows))

\* aggfunc="sum"
mean_Sum(rows) == Fraction(SumIV(rows), 1)

\* aggfunc="mean" over the rows of one bucket
mean(rows) == Fraction(SumIV(rows), Len(rows))

\* options_df[options_df["optionType"] == option_type]
select_type(rows, option_type) ==
    LET Test(r) == r.optionType = option_type IN SelectSeq(rows, Test)

\* no dropna: the rows without a volatility stay
dropna_KeepAll(rows) == rows

\* options_df.dropna(subset=["impliedVolatility"])
dropna(rows) ==
    LET Test(r) == r.impliedVolatility # None IN SelectSeq(rows, Test)

\* the column the filter and the y axis read
YValue(row, um) == IF um THEN row.moneyness ELSE row.strike

\* exclusive bounds
in_range_Exclusive(v, fr) == v > fr[1] /\ v < fr[2]

\* (column >= filter_range[0]) & (column <= filter_range[1])
in_range(v, fr) == v >= fr[1] /\ v <= fr[2]

\* the two filter branches; an absent filter_range is falsy and filters nothing
apply_filter(rows, um, fr) ==
    IF fr # <<>>
    THEN LET Test(r) == in_range(YValue(r, um), fr)
         IN  SelectSeq(rows, Test)
    ELSE rows

\* options_df.pivot_table(values="impliedVolatility", index="daysToExpiry",
\*                        columns=y_col, aggfunc="mean")
pivot_table(rows, um) ==
    LET Bucket(d, v) ==
            LET Test(r) == r.daysToExpiry = d /\ YValue(r, um) = v
            IN  SelectSeq(rows, Test)
        Cell(bucket) == IF bucket = <<>> THEN Missing ELSE mean(bucket)
        Table(x, y) ==
            [x |-> x, y |-> y,
             z |-> [i \in 1 .. Len(x) |-> [j \in 1 .. Len(y) |->
                       Cell(Bucket(x[i], y[j]))]]]
    IN  Table(SortedSeq({rows[i].daysToExpiry : i \in 1 .. Len(rows)}),
              SortedSeq({YValue(rows[i], um) : i \in 1 .. Len(rows)}))

NoneFigure == [isNone |-> TRUE, x |-> <<>>, y |-> <<>>, z |-> <<>>]

\* options_df.empty tested before the filter instead of after it
create_volatility_surface_EmptyFirst(df, option_type, um, fr) ==
    LET Figure(p) == [isNone |-> FALSE, x |-> p.x, y |-> p.y, z |-> p.z]
        Return(solvedRows, frame) ==
            IF solvedRows = <<>>
            THEN [fig |-> NoneFigure, kept |-> frame]
            ELSE [fig |-> Figure(pivot_table(frame, um)), kept |-> frame]
        Filter(solvedRows) ==
            Return(solvedRows, apply_filter(solvedRows, um, fr))
    IN  Filter(dropna(select_type(df.rows, option_type)))

\* create_volatility_surface(options_df, option_type, use_moneyness,
\* filter_range): fig is what it returns, kept is its local options_df when it
\* tests options_df.empty
create_volatility_surface(df, option_type, um, fr) ==
    LET Figure(p) == [isNone |-> FALSE, x |-> p.x, y |-> p.y, z |-> p.z]
        Return(frame) ==
            IF frame = <<>>
            THEN [fig |-> NoneFigure, kept |-> frame]
            ELSE [fig |-> Figure(pivot_table(frame, um)), kept |-> frame]
    IN  Return(apply_filter(dropna(select_type(df.rows, option_type)), um, fr))

\* ------------------------------------------------------------------------
\* get_volatility_surface as a state machine
\* ------------------------------------------------------------------------
VARIABLES
    pc,               \* the position in the call that is running
    ticker,           \* what the provider answered, where it is recorded
    risk_free_rate,   \* the arguments of the call
    dividend_yield,
    use_moneyness,
    filter_range,
    options_df,       \* the local options_df
    current_price,    \* the local current_price
    solved,           \* per row, what calc_iv did
    kept,             \* per side, the rows create_volatility_surface retained
    call_fig,         \* the returned figures
    put_fig

vars == << pc, ticker, risk_free_rate, dividend_yield, use_moneyness, filter_range,
           options_df, current_price, solved, kept, call_fig, put_fig >>

\* before the provider is asked
NoTicker == [available |-> FALSE, spot |-> 0, market |-> <<>>]

Init ==
    /\ pc = "start"
    /\ ticker = NoTicker
    /\ risk_free_rate = 0
    /\ dividend_yield = 0
    /\ use_moneyness = TRUE
    /\ filter_range = <<>>
    /\ options_df = NoneFrame
    /\ current_price = 0
    /\ solved = <<>>
    /\ kept = [t \in OptionTypes |-> <<>>]
    /\ call_fig = NoneFigure
    /\ put_fig = NoneFigure

\* the call get_volatility_surface(ticker, r, q, use_moneyness, filter_range)
\* up to its first return: the fetch, and (None, None, current_price) when the
\* fetch gave no frame
GetVolatilitySurface ==
    /\ pc = "start"
    /\ \E rq \in Rates, um \in BOOLEAN, fr \in FilterRanges,
          available \in BOOLEAN, spot \in Spots, market \in Markets :
          \E f \in {fetch_option_chain(available, spot, market)} :
              /\ risk_free_rate' = rq[1]
              /\ dividend_yield' = rq[2]
              /\ use_moneyness' = um
              /\ filter_range' = fr
              /\ options_df' = f.options_df
              /\ current_price' = f.current_price
              /\ pc' = IF f.options_df.isNone THEN "done" ELSE "solve"
    /\ UNCHANGED << ticker, solved, kept, call_fig, put_fig >>

\* options_df = calculate_implied_volatility(options_df, r, q)
CalculateImpliedVolatility ==
    /\ pc = "solve"
    /\ \E c \in {calculate_implied_volatility(options_df, risk_free_rate,
                                              dividend_yield)} :
           /\ options_df' = c.options_df
           /\ solved' = c.solved
           /\ pc' = IF c.raised THEN "raised" ELSE "surface"
    /\ UNCHANGED << ticker, risk_free_rate, dividend_yield, use_moneyness, filter_range,
                    current_price, kept, call_fig, put_fig >>

\* the two calls of create_volatility_surface and the return
CreateVolatilitySurfaces ==
    /\ pc = "surface"
    /\ \E c \in {create_volatility_surface(options_df, "call", use_moneyness,
                                           filter_range)},
          p \in {create_volatility_surface(options_df, "put", use_moneyness,
                                           filter_range)} :
           /\ call_fig' = c.fig
           /\ put_fig' = p.fig
           /\ kept' = [t \in OptionTypes |-> IF t = "call" THEN c.kept ELSE p.kept]
    /\ pc' = "done"
    /\ UNCHANGED << ticker, risk_free_rate, dividend_yield, use_moneyness, filter_range,
                    options_df, current_price, solved >>

Next ==
    \/ GetVolatilitySurface
    \/ CalculateImpliedVolatility
    \/ CreateVolatilitySurfaces

Spec == Init /\ [][Next]_vars

\* ------------------------------------------------------------------------
\* Properties of calc_iv
\* ------------------------------------------------------------------------
Rows == options_df.rows
Range(f) == {f[i] : i \in DOMAIN f}

\* the 101 volatilities the search tries: the seed and the grid
Candidates == {SeedIV} \cup {linspace(k) : k \in 0 .. GridPoints - 1}

\* of the (volatility, error) pairs of the candidates, the pair the search
\* has to retain: the seed unless a grid candidate has a strictly smaller
\* error, else the grid candidate of least error and, of those, of smallest
\* volatility
FirstMinimum(errors) ==
    LET seed   == CHOOSE p \in errors : p[1] = SeedIV
        better == {p \in errors : p[1] # SeedIV /\ Less(p[2], seed[2])}
    IN  IF better = {} THEN seed
        ELSE CHOOSE p \in better :
                 \A o \in better :
                     p[2] < o[2] \/ (p[2] = o[2] /\ p[1] <= o[1])

\* the pairs (volatility, absolute price error) of all the candidates for the
\* row and spot of key k
CandidateErrors(k) ==
    { << sigma,
         objective_function([optionType |-> k[1], strike |-> k[2],
                             timeToExpiry |-> k[3], lastPrice |-> k[4]],
                            k[5], k[6][1], k[6][2], sigma) >> :
      sigma \in Candidates }

\* per row and spot that can occur, the candidates' errors and their first
\* minimum, computed once
error_table ==
    { << k, LET errors == CandidateErrors(k)
            IN  [errors |-> errors, first_minimum |-> FirstMinimum(errors)] >> :
      k \in OptionTypes \X Strikes \X Days \X LastPrices \X CurrentPrices \X Rates }

errors_of == Lookup(error_table)

\* the key of row i under the spot calc_iv was given
KeyOf(i) ==
    << Rows[i].optionType, Rows[i].strike, Rows[i].timeToExpiry,
       Rows[i].lastPrice, solved[i].current_price,
       <<risk_free_rate, dividend_yield>> >>

\* the (volatility, error) pairs of row i
ErrorsOf(i) == errors_of[KeyOf(i)].errors

\* C1: a quote whose observed price is below 0.01 gets None from calc_iv
\* without a single pricer evaluation, whatever its other fields are; the
\* None is what the frame stores for it.
C1_TooSmallReturnsNoneAtOnce ==
    \A i \in 1 .. Len(solved) :
        Rows[i].lastPrice < 10 =>
            /\ solved[i].result = None
            /\ solved[i].evals = 0
            /\ Rows[i].impliedVolatility = None

\* a solved frame holding a quote priced 0.005 for which nothing was priced
C1_Witness ==
    /\ pc = "surface"
    /\ \E i \in 1 .. Len(solved) :
          Rows[i].lastPrice = 5 /\ solved[i].evals = 0

\* C2: for a quote priced 0.01 or more, calc_iv returns None exactly when the
\* smallest error the search found is strictly greater than a tenth of the
\* observed price; at or under that bound it returns the retained volatility.
C2_RejectedIffErrorAboveTenth ==
    \A i \in 1 .. Len(solved) :
        Rows[i].lastPrice >= 10 =>
            /\ solved[i].evals = GridPoints + 1
            /\ solved[i].result = None <=>
                  (solved[i].best_error # NaN
                   /\ 10 * solved[i].best_error > Rows[i].lastPrice)
            /\ solved[i].result # None => solved[i].result = solved[i].best_iv

\* a quote whose smallest error is exactly a tenth of its price, accepted,
\* next to a quote in the same frame whose error is above the bound
C2_Witness ==
    /\ pc = "surface"
    /\ \E i, j \in 1 .. Len(solved) :
          /\ Rows[i].lastPrice >= 10
          /\ 10 * solved[i].best_error = Rows[i].lastPrice
          /\ solved[i].result = solved[i].best_iv
          /\ Rows[j].lastPrice >= 10
          /\ solved[j].best_error # NaN
          /\ 10 * solved[j].best_error > Rows[j].lastPrice
          /\ solved[j].result = None

\* C3: the volatility the search retains has the least error of the seed 0.5
\* and the 100 grid candidates; the seed stays unless a grid candidate has a
\* strictly smaller error, and of the grid candidates with the least error
\* the smallest volatility is retained.
C3_RetainedIsFirstMinimum ==
    \A i \in 1 .. Len(solved) :
        solved[i].evals > 0 =>
            << solved[i].best_iv, solved[i].best_error >>
                = errors_of[KeyOf(i)].first_minimum

\* one frame with a quote whose least error is shared by several grid
\* candidates and the seed is displaced, and a quote whose seed is kept
\* though a grid candidate ties with it
C3_Witness ==
    /\ pc = "surface"
    /\ \E i \in 1 .. Len(solved) :
          /\ solved[i].evals > 0
          /\ solved[i].best_iv # SeedIV
          /\ \E p \in ErrorsOf(i) :
                p[1] > solved[i].best_iv /\ p[2] = solved[i].best_error
    /\ \E j \in 1 .. Len(solved) :
          /\ solved[j].evals > 0
          /\ solved[j].best_iv = SeedIV
          /\ solved[j].best_error # NaN
          /\ \E p \in ErrorsOf(j) :
                p[1] # SeedIV /\ p[2] = solved[j].best_error

\* ------------------------------------------------------------------------
\* Properties of the surface build
\* ------------------------------------------------------------------------
\* the build went through calculate_implied_volatility
Solved == pc \in {"surface", "done"} /\ ~options_df.isNone
\* the build returned its two figures
Built == pc = "done" /\ ~options_df.isNone

Fig(t) == IF t = "call" THEN call_fig ELSE put_fig

\* the rows of side t for which calc_iv returned a volatility
SolvedOf(t) ==
    {i \in 1 .. Len(Rows) : Rows[i].optionType = t /\ solved[i].result # None}

\* the value the filter and the y axis are about
AxisValue(row) == IF use_moneyness THEN row.moneyness ELSE row.strike

InsideFilter(row) ==
    filter_range = <<>>
    \/ (filter_range[1] <= AxisValue(row) /\ AxisValue(row) <= filter_range[2])

\* the rows of side t that are solved and inside the filter
Remaining(t) == {i \in SolvedOf(t) : InsideFilter(Rows[i])}

\* the rows with the given indices, in the order of the frame
RowsAt(idx) ==
    LET order == SortedSeq(idx) IN [n \in 1 .. Len(order) |-> Rows[order[n]]]

\* C4: a fetch that yields None, or a frame without rows, gives None for the
\* call and the put figure and raises nothing.
C4_EmptyOrNoneGivesNoFigures ==
    (options_df.isNone \/ Rows = <<>>) =>
        /\ pc # "raised"
        /\ pc = "done" => (call_fig.isNone /\ put_fig.isNone)

\* C5: a None from calc_iv removes that quote only: a frame with rows never
\* aborts, every quote priced 0.01 or more goes through the whole search, the
\* frame stores each result with its quote, a side keeps no quote without a
\* volatility, and without a filter it keeps exactly its solved quotes.
C5_NotFoundDropsOnlyThatQuote ==
    /\ pc = "raised" => Rows = <<>>
    /\ Solved =>
          /\ Len(solved) = Len(Rows)
          /\ \A i \in 1 .. Len(Rows) :
                /\ Rows[i].impliedVolatility = solved[i].result
                /\ Rows[i].lastPrice >= 10 => solved[i].evals = GridPoints + 1
    /\ Built =>
          \A t \in OptionTypes :
              /\ Range(kept[t]) \subseteq {Rows[i] : i \in SolvedOf(t)}
              /\ filter_range = <<>> => kept[t] = RowsAt(SolvedOf(t))

\* a built surface where one side has a quote without a volatility next to a
\* solved quote that the side keeps
C5_Witness ==
    /\ Built
    /\ \E t \in OptionTypes : \E i, j \in 1 .. Len(Rows) :
          /\ Rows[i].optionType = t /\ solved[i].result = None
          /\ Rows[i].lastPrice >= 10
          /\ j \in SolvedOf(t) /\ Rows[j] \in Range(kept[t])
          /\ ~Fig(t).isNone

\* C6: with a filter range (low, high) a solved quote is kept if and only if
\* low <= v <= high, v being its moneyness when use_moneyness holds and its
\* strike otherwise, both bounds included; without a range the filter
\* removes no quote.
C6_FilterIsInclusive ==
    Built =>
        \A t \in OptionTypes :
            /\ \A i \in SolvedOf(t) :
                  Rows[i] \in Range(kept[t]) <=>
                      (filter_range = <<>>
                       \/ LET v == IF use_moneyness THEN Rows[i].moneyness
                                   ELSE Rows[i].strike
                          IN  filter_range[1] <= v /\ v <= filter_range[2])
            /\ filter_range = <<>> => Len(kept[t]) = Cardinality(SolvedOf(t))

\* a filtered build that keeps one quote sitting exactly on the lower bound
\* and one sitting exactly on the upper bound
C6_Witness ==
    /\ Built
    /\ filter_range # <<>>
    /\ \E t, u \in OptionTypes :
          /\ \E k \in Range(kept[t]) : AxisValue(k) = filter_range[1]
          /\ \E k \in Range(kept[u]) : AxisValue(k) = filter_range[2]

RECURSIVE SumAt(_)
\* the sum of the stored volatilities of the rows with the given indices
SumAt(idx) ==
    IF idx = {} THEN 0
    ELSE LET i == CHOOSE j \in idx : TRUE
         IN  Rows[i].impliedVolatility + SumAt(idx \ {i})

\* the rows of side t that remain and fall in the bucket (d, v)
BucketOf(t, d, v) ==
    {i \in Remaining(t) : Rows[i].daysToExpiry = d /\ AxisValue(Rows[i]) = v}

\* the cell of a figure at (d, v): Missing when the figure has no such cell
CellAt(fig, d, v) ==
    IF \E i \in DOMAIN fig.x, j \in DOMAIN fig.y : fig.x[i] = d /\ fig.y[j] = v
    THEN LET i == CHOOSE a \in DOMAIN fig.x : fig.x[a] = d
             j == CHOOSE b \in DOMAIN fig.y : fig.y[b] = v
         IN  fig.z[i][j]
    ELSE Missing

\* C7: in the grid of a side the cell (daysToExpiry, y value) has a value
\* exactly when a remaining quote of the side falls in that bucket, and the
\* value is the arithmetic mean of the volatilities of all the remaining
\* quotes of the bucket; a bucket without a quote has no value, and the axes
\* are ascending and list only the days and y values of remaining quotes.
C7_CellIsMeanOfItsBucket ==
    Built =>
        \A t \in OptionTypes :
            ~Fig(t).isNone =>
                LET fig == Fig(t)
                IN  /\ \A d \in Days, v \in Strikes \cup {Moneyness(K, current_price) : K \in Strikes} :
                          LET bucket == BucketOf(t, d, v)
                              cell   == CellAt(fig, d, v)
                          IN  IF bucket = {}
                              THEN cell = Missing
                              ELSE /\ cell.den > 0
                                   /\ cell.num * Cardinality(bucket)
                                          = SumAt(bucket) * cell.den
                    /\ \A i \in DOMAIN fig.x :
                          /\ \E k \in Remaining(t) : Rows[k].daysToExpiry = fig.x[i]
                          /\ \A j \in DOMAIN fig.x : i < j => fig.x[i] < fig.x[j]
                    /\ \A i \in DOMAIN fig.y :
                          /\ \E k \in Remaining(t) : AxisValue(Rows[k]) = fig.y[i]
                          /\ \A j \in DOMAIN fig.y : i < j => fig.y[i] < fig.y[j]
                    /\ Len(fig.z) = Len(fig.x)
                    /\ \A i \in DOMAIN fig.z : Len(fig.z[i]) = Len(fig.y)

\* a grid with a cell that averages two quotes of different volatilities
C7_Witness ==
    /\ Built
    /\ \E t \in OptionTypes : \E i, j \in Remaining(t) :
          /\ i # j
          /\ Rows[i].daysToExpiry = Rows[j].daysToExpiry
          /\ AxisValue(Rows[i]) = AxisValue(Rows[j])
          /\ Rows[i].impliedVolatility # Rows[j].impliedVolatility
          /\ CellAt(Fig(t), Rows[i].daysToExpiry, AxisValue(Rows[i])) # Missing

\* C8: a side for which no quote remains after the quotes without a
\* volatility are dropped and the filter is applied gets None, not an empty
\* grid, and a side with a remaining quote gets a grid with at least one
\* cell, whatever the other side gets.
C8_NoneIffNothingRemains ==
    Built =>
        \A t \in OptionTypes :
            /\ Fig(t).isNone <=> Remaining(t) = {}
            /\ ~Fig(t).isNone => (Len(Fig(t).x) > 0 /\ Len(Fig(t).y) > 0)

\* a build where the call side has a solved quote that the filter removes and
\* gets None while the put side gets a grid
C8_Witness ==
    /\ Built
    /\ SolvedOf("call") # {}
    /\ Remaining("call") = {}
    /\ call_fig.isNone
    /\ ~put_fig.isNone

C10_StoredVolatilityInDomain ==
    Solved =>
        \A i \in 1 .. Len(Rows) :
            Rows[i].impliedVolatility # None =>
                (99 <= Rows[i].impliedVolatility
                 /\ Rows[i].impliedVolatility <= 19800)

\* a solved frame that stores the lowest volatility of the domain for one
\* quote and a grid volatility above the seed for another
C10_Witness ==
    /\ Solved
    /\ \E i, j \in 1 .. Len(Rows) :
          /\ Rows[i].impliedVolatility = 99
          /\ Rows[j].impliedVolatility > SeedIV

\* ------------------------------------------------------------------------
\* The solver on a price the pricer produced: a contract with a known
\* volatility is priced, then calc_iv is given that price
\* ------------------------------------------------------------------------
\* the known volatilities, in [0.05, 1.5]:
\* 0.05, 0.06, 0.07, 0.08, 0.2, 0.5, 1.0, 1.5
Sigma0s == {495, 594, 693, 792, 1980, 4950, 9900, 14850}
\* days to expiry of the contracts: one and two years
ContractDays == {365, 730}

\* the contract as a row, its price still to be computed
Contract(option_type, K, days, sigma) ==
    [optionType |-> option_type, strike |-> K, timeToExpiry |-> days,
     lastPrice |-> 0, sigma |-> sigma]

RoundTripInit ==
    /\ pc = "contract"
    /\ ticker = NoTicker
    /\ \E rq \in Rates :
          risk_free_rate = rq[1] /\ dividend_yield = rq[2]
    /\ use_moneyness = TRUE
    /\ filter_range = <<>>
    /\ \E t \in OptionTypes, K \in Strikes, d \in ContractDays, s0 \in Sigma0s :
          options_df = DataFrame(<< Contract(t, K, d, s0) >>)
    /\ current_price \in Spots
    /\ solved = <<>>
    /\ kept = [t \in OptionTypes |-> <<>>]
    /\ call_fig = NoneFigure
    /\ put_fig = NoneFigure

\* BlackScholes(S, K, T, r, sigma0, q).calculate_option_price(option_type)
PriceContract ==
    /\ pc = "contract"
    /\ \E m \in {calculate_option_price(
                     options_df.rows[1].optionType, current_price,
                     options_df.rows[1].strike, options_df.rows[1].timeToExpiry,
                     risk_free_rate, options_df.rows[1].sigma, dividend_yield)} :
          /\ ~m.nan
          /\ options_df' = DataFrame(
                 << [options_df.rows[1] EXCEPT !.lastPrice = m.price] >>)
    /\ pc' = "priced"
    /\ UNCHANGED << ticker, risk_free_rate, dividend_yield, use_moneyness, filter_range,
                    current_price, solved, kept, call_fig, put_fig >>

\* calc_iv(row, current_price, risk_free_rate, dividend_yield) on that price
SolveContract ==
    /\ pc = "priced"
    /\ solved' = << calc_iv(options_df.rows[1], current_price, risk_free_rate,
                            dividend_yield) >>
    /\ pc' = "solved"
    /\ UNCHANGED << ticker, risk_free_rate, dividend_yield, use_moneyness, filter_range,
                    options_df, current_price, kept, call_fig, put_fig >>

RoundTripNext ==
    \/ PriceContract
    \/ SolveContract

RoundTripSpec == RoundTripInit /\ [][RoundTripNext]_vars

\* C11: solving the price the pricer gives a contract of volatility s0 in
\* [0.05, 1.5] returns a volatility, not None, within 0.02 of s0 (stated for
\* the contracts struck at the spot, whose price moves most with the
\* volatility).
C11_RoundTripWithinGridResolution ==
    (pc = "solved" /\ Rows[1].strike = current_price) =>
        /\ solved[1].result # None
        /\ Abs(solved[1].result - Rows[1].sigma) <= 198

\* ------------------------------------------------------------------------
\* fetch_option_chain on a ticker that also lists an expiry dated today or
\* yesterday
\* ------------------------------------------------------------------------
\* the listed expiry dates, in days after today: yesterday, today and tomorrow
ListedDates == {-1, 0, 1}

FetchInit ==
    /\ pc = "fetch"
    /\ ticker = NoTicker
    /\ risk_free_rate = 0
    /\ dividend_yield = 0
    /\ use_moneyness = TRUE
    /\ filter_range = <<>>
    /\ options_df = NoneFrame
    /\ current_price = 0
    /\ solved = <<>>
    /\ kept = [t \in OptionTypes |-> <<>>]
    /\ call_fig = NoneFigure
    /\ put_fig = NoneFigure

\* options_df, current_price = fetch_option_chain(ticker) and the return of
\* (None, None, current_price) when options_df is None
FetchOptionChain ==
    /\ pc = "fetch"
    /\ \E available \in BOOLEAN, spot \in Spots,
          market \in MarketsFrom(SortedSeq(ListedDates), MaxQuotes) :
          \E f \in {fetch_option_chain(available, spot, market)} :
              /\ ticker' = [available |-> available, spot |-> spot,
                            market |-> market]
              /\ options_df' = f.options_df
              /\ current_price' = f.current_price
              /\ pc' = IF f.options_df.isNone THEN "done" ELSE "fetched"
    /\ UNCHANGED << risk_free_rate, dividend_yield, use_moneyness, filter_range,
                    solved, kept, call_fig, put_fig >>

FetchNext == FetchOptionChain

FetchSpec == FetchInit /\ [][FetchNext]_vars

\* C12: every quote fetch_option_chain produces has daysToExpiry >= 0 and
\* timeToExpiry = daysToExpiry / 365 (timeToExpiry is kept in 1/365 of a
\* year, so the two columns hold the same integer), also for an expiry dated
\* today or earlier.
C12_DaysToExpiryNonNegative ==
    pc = "fetched" =>
        \A i \in 1 .. Len(Rows) :
            /\ Rows[i].daysToExpiry >= 0
            /\ Rows[i].timeToExpiry = Rows[i].daysToExpiry

\* ------------------------------------------------------------------------
\* Properties of fetch_option_chain and of the return on a None frame
\* ------------------------------------------------------------------------
\* the call of fetch_option_chain has returned
Fetched == pc # "fetch"

\* the listed expiry e gave at least one quote
Yields(e) == e.ok /\ Len(e.calls) + Len(e.puts) > 0

\* the fetched rows of one expiry date, in frame order
QuotesAt(date) ==
    LET At(row) == row.expiryDate = date
    IN  SelectSeq(Rows, At)

\* the provider's columns of some fetched rows
RawOf(rows) ==
    [i \in 1 .. Len(rows) |->
        [strike |-> rows[i].strike, lastPrice |-> rows[i].lastPrice]]

\* every expiry whose chain arrived has all its quotes in the frame and an
\* expiry whose chain raised has none
KeepsEveryOtherExpiry ==
    \A k \in 1 .. Len(ticker.market) :
        LET Kept(e) ==
                IF e.ok
                THEN RawOf(QuotesAt(e.date)) = e.calls \o e.puts
                ELSE QuotesAt(e.date) = <<>>
        IN  Kept(ticker.market[k])

\* get_volatility_surface returned (None, None, current_price)
ReturnedNone == pc = "done" /\ call_fig.isNone /\ put_fig.isNone

\* C13: fetch_option_chain never raises; an expiry whose fetch fails is
\* skipped and the quotes of every other expiry are kept; when no expiry
\* yields a quote it returns (None, spot); when the spot or the expiry list
\* cannot be fetched it returns (None, 0); and on a None frame
\* get_volatility_surface returns None for both sides with that price.
C13_FetchFailuresGiveNone ==
    Fetched =>
        /\ (ticker.available /\ ~options_df.isNone) => KeepsEveryOtherExpiry
        /\ (ticker.available
              /\ \A k \in 1 .. Len(ticker.market) : ~Yields(ticker.market[k]))
               => (options_df.isNone /\ current_price = ticker.spot)
        /\ ~ticker.available => (options_df.isNone /\ current_price = 0)
        /\ options_df.isNone => ReturnedNone

====
